---- MODULE Spec2Model ----
(***************************************************************************)
(* Directory override settings of cc-switch.                               *)
(*                                                                         *)
(* The model covers the DirectorySettings panel                            *)
(* (src/components/settings/DirectorySettings.tsx): what each input        *)
(* displays, which controls are disabled, and which callback each control  *)
(* invokes with which argument.  The callbacks themselves are props; the   *)
(* state they act on is held by the parent.  They are modelled after the   *)
(* mutation contract of the specification (sections 4.3 - 4.5 and 7), and  *)
(* so are the native directory dialog and the provider-switch action.      *)
(*                                                                         *)
(* A JavaScript value of type `string | undefined` is a sequence: the      *)
(* empty sequence is undefined, <<s>> is the string s.                     *)
(***************************************************************************)
EXTENDS Integers, Sequences, FiniteSets, TLC

\* Number of distinct non-empty paths a user can type or pick.
NumPaths == 1
\* Number of native directory dialogs that may be open at the same time.
MaxPending == 1

AppId == {"claude", "codex", "gemini"}
DirectoryKeys == {"appConfig"} \cup AppId

undefined == <<>>
Str(s) == <<s>>

CustomPath(i) == "/custom/p" \o ToString(i)
DialogPaths == {CustomPath(i) : i \in 1..NumPaths}
TypedStrings == {""} \cup DialogPaths

\* Platform defaults: every key present and non-empty.  The second layout
\* has a default that coincides with a path a user can type.
ResolvedChoices ==
    { [appConfig |-> "/home/.cc-switch", claude |-> "/home/.claude",
       codex |-> "/home/.codex", gemini |-> "/home/.gemini"],
      [appConfig |-> "/data/cc-switch", claude |-> CustomPath(1),
       codex |-> "/data/codex", gemini |-> "/data/gemini"] }

VARIABLES
    appConfigDir,                        \* string | undefined
    claudeDir, codexDir, geminiDir,      \* string | undefined
    enableConfigDirOverrides,            \* boolean
    syncProviderSwitchToBothConfigDirs,  \* boolean
    resolvedDirs,                        \* ResolvedDirectories
    pendingBrowse,                       \* directories whose dialog is open
    lastEvent                            \* the event handled last, and its result

settings == <<appConfigDir, claudeDir, codexDir, geminiDir,
              enableConfigDirOverrides, syncProviderSwitchToBothConfigDirs>>
vars == <<appConfigDir, claudeDir, codexDir, geminiDir,
          enableConfigDirOverrides, syncProviderSwitchToBothConfigDirs,
          resolvedDirs, pendingBrowse, lastEvent>>

OptionalStrings == {undefined} \cup {Str(s) : s \in TypedStrings}

\* The props of the panel, and the bookkeeping of open dialogs.
TypeOK ==
    /\ appConfigDir \in OptionalStrings
    /\ claudeDir \in OptionalStrings
    /\ codexDir \in OptionalStrings
    /\ geminiDir \in OptionalStrings
    /\ enableConfigDirOverrides \in BOOLEAN
    /\ syncProviderSwitchToBothConfigDirs \in BOOLEAN
    /\ resolvedDirs \in ResolvedChoices
    /\ pendingBrowse \in SUBSET DirectoryKeys
    /\ Cardinality(pendingBrowse) <= MaxPending

NoResult == [kind |-> "none", targets |-> {}, succeeded |-> {}, failed |-> {},
             applied |-> {}]
Event(kind, control, value) ==
    [kind |-> kind, control |-> control, value |-> value, failedWrites |-> {},
     result |-> NoResult]

-----------------------------------------------------------------------------
(* The panel: what it renders *)

\* a ?? b
Nullish(a, b) == IF a = undefined THEN b ELSE a

\* a || b on strings: the empty string is falsy too
Falsy(a, b) == IF a = undefined \/ a = Str("") THEN b ELSE a

\* Variant: value || resolvedValue || ""
displayValueOr(value, resolvedValue) ==
    Falsy(Falsy(value, resolvedValue), Str(""))

\* DirectoryInput: value ?? resolvedValue ?? ""
displayValue(value, resolvedValue) ==
    Nullish(Nullish(value, resolvedValue), Str(""))

\* The value prop of each DirectoryInput.
DirValue(app) ==
    CASE app = "claude" -> claudeDir
      [] app = "codex"  -> codexDir
      [] app = "gemini" -> geminiDir

ResolvedValue(app) == Str(resolvedDirs[app])

\* Variant: the disabled prop left out
DisabledNever(app) == FALSE

\* Variant: per-app rows also disabled while a dialog is open
DisabledWhileBrowsing(app) == ~enableConfigDirOverrides \/ pendingBrowse # {}

\* The disabled prop of each DirectoryInput.
Disabled(app) == ~enableConfigDirOverrides

\* What the text input of an app's DirectoryInput shows.
DirectoryInputDisplay(app) == displayValue(DirValue(app), ResolvedValue(app))

\* What the text input of the host app-config directory shows.
AppConfigInputDisplay ==
    Nullish(Nullish(appConfigDir, Str(resolvedDirs.appConfig)), Str(""))

Display(key) ==
    IF key = "appConfig" THEN AppConfigInputDisplay ELSE DirectoryInputDisplay(key)

StoredOverride(key) ==
    IF key = "appConfig" THEN appConfigDir ELSE DirValue(key)

-----------------------------------------------------------------------------
(* The callbacks: mutation contract of the settings state *)

SetOverride(key, value) ==
    /\ appConfigDir' = IF key = "appConfig" THEN value ELSE appConfigDir
    /\ claudeDir' = IF key = "claude" THEN value ELSE claudeDir
    /\ codexDir' = IF key = "codex" THEN value ELSE codexDir
    /\ geminiDir' = IF key = "gemini" THEN value ELSE geminiDir
    /\ UNCHANGED <<enableConfigDirOverrides, syncProviderSwitchToBothConfigDirs>>

onAppConfigChange(value) == SetOverride("appConfig", value)

onDirectoryChange(app, value) == SetOverride(app, value)

onResetAppConfig == SetOverride("appConfig", undefined)

onResetDirectory(app) == SetOverride(app, undefined)

onEnableConfigDirOverridesChange(enabled) ==
    /\ enableConfigDirOverrides' = enabled
    /\ UNCHANGED <<appConfigDir, claudeDir, codexDir, geminiDir,
                   syncProviderSwitchToBothConfigDirs>>

onSyncProviderSwitchToBothConfigDirsChange(enabled) ==
    /\ syncProviderSwitchToBothConfigDirs' = enabled
    /\ UNCHANGED <<appConfigDir, claudeDir, codexDir, geminiDir,
                   enableConfigDirOverrides>>

\* browse, up to the point where it awaits the native dialog
OpenDialog(key) ==
    /\ key \notin pendingBrowse
    /\ Cardinality(pendingBrowse) < MaxPending
    /\ pendingBrowse' = pendingBrowse \cup {key}
    /\ UNCHANGED settings

onBrowseAppConfig == OpenDialog("appConfig")

onBrowseDirectory(app) == OpenDialog(app)

-----------------------------------------------------------------------------
(* The panel: what its controls do *)

\* Variant: event.target.value || undefined
InputEventValueOrUndefined(s) == IF s = "" THEN undefined ELSE Str(s)

\* event.target.value of a text input is always a string
InputEventValue(s) == Str(s)

\* onChange / onBrowse / onReset props of the DirectoryInput of `app`
OnChange(app, val) == onDirectoryChange(app, val)

\* Variant: the browse button wired to the reset callback
OnBrowseResets(app) ==
    /\ onResetDirectory(app)
    /\ UNCHANGED pendingBrowse

OnBrowse(app) == onBrowseDirectory(app)

\* Variant: every reset button wired to the claude row's callback
OnResetClaude(app) == onResetDirectory("claude")

OnReset(app) == onResetDirectory(app)

\* Variant: the overrides switch wired to the sync callback
OnEnableCheckedChangeMiswired(checked) ==
    onSyncProviderSwitchToBothConfigDirsChange(checked)

\* onCheckedChange of the overrides switch
OnEnableCheckedChange(checked) == onEnableConfigDirOverridesChange(checked)

\* onCheckedChange of the sync switch
OnSyncCheckedChange(checked) ==
    onSyncProviderSwitchToBothConfigDirsChange(checked)

\* A change event carries a string other than the one displayed.
AppConfigInputChange ==
    \E s \in TypedStrings :
        /\ Str(s) # AppConfigInputDisplay
        /\ onAppConfigChange(InputEventValue(s))
        /\ lastEvent' = Event("change", "appConfig", Str(s))
        /\ UNCHANGED <<resolvedDirs, pendingBrowse>>

AppConfigBrowseClick ==
    /\ onBrowseAppConfig
    /\ lastEvent' = Event("browse", "appConfig", undefined)
    /\ UNCHANGED resolvedDirs

AppConfigResetClick ==
    /\ onResetAppConfig
    /\ lastEvent' = Event("reset", "appConfig", undefined)
    /\ UNCHANGED <<resolvedDirs, pendingBrowse>>

DirectoryInputChange(app) ==
    /\ ~Disabled(app)
    /\ \E s \in TypedStrings :
        /\ Str(s) # DirectoryInputDisplay(app)
        /\ OnChange(app, InputEventValue(s))
        /\ lastEvent' = Event("change", app, Str(s))
    /\ UNCHANGED <<resolvedDirs, pendingBrowse>>

DirectoryBrowseClick(app) ==
    /\ ~Disabled(app)
    /\ OnBrowse(app)
    /\ lastEvent' = Event("browse", app, undefined)
    /\ UNCHANGED resolvedDirs

DirectoryResetClick(app) ==
    /\ ~Disabled(app)
    /\ OnReset(app)
    /\ lastEvent' = Event("reset", app, undefined)
    /\ UNCHANGED <<resolvedDirs, pendingBrowse>>

EnableOverridesSwitchClick ==
    /\ OnEnableCheckedChange(~enableConfigDirOverrides)
    /\ lastEvent' = Event("enableSwitch", "none",
                          IF enableConfigDirOverrides THEN Str("off") ELSE Str("on"))
    /\ UNCHANGED <<resolvedDirs, pendingBrowse>>

SyncSwitchClick ==
    /\ OnSyncCheckedChange(~syncProviderSwitchToBothConfigDirs)
    /\ lastEvent' = Event("syncSwitch", "none",
                          IF syncProviderSwitchToBothConfigDirs THEN Str("off") ELSE Str("on"))
    /\ UNCHANGED <<resolvedDirs, pendingBrowse>>

-----------------------------------------------------------------------------
(* The native directory dialog completes *)

BrowseSelected(key) ==
    /\ key \in pendingBrowse
    /\ \E p \in DialogPaths :
        /\ SetOverride(key, Str(p))
        /\ lastEvent' = Event("browseSelected", key, Str(p))
    /\ pendingBrowse' = pendingBrowse \ {key}
    /\ UNCHANGED resolvedDirs

BrowseCancelled(key) ==
    /\ key \in pendingBrowse
    /\ lastEvent' = Event("browseCancelled", key, undefined)
    /\ pendingBrowse' = pendingBrowse \ {key}
    /\ UNCHANGED <<settings, resolvedDirs>>

BrowseError(key) ==
    /\ key \in pendingBrowse
    /\ lastEvent' = Event("browseError", key, undefined)
    /\ pendingBrowse' = pendingBrowse \ {key}
    /\ UNCHANGED <<settings, resolvedDirs>>

-----------------------------------------------------------------------------
(* The provider-switch action and its fan-out policy *)

Primary(app) == <<"app", app>>
Companion(app) == <<"companion", app>>

\* Variant: fan-out only while the overrides gate is on
targetsForGated(syncEnabled, primaryApp) ==
    IF syncEnabled /\ enableConfigDirOverrides
    THEN {Primary(primaryApp), Companion(primaryApp)}
    ELSE {Primary(primaryApp)}

targetsFor(syncEnabled, primaryApp) ==
    IF syncEnabled
    THEN {Primary(primaryApp), Companion(primaryApp)}
    ELSE {Primary(primaryApp)}

\* Variant: the outcome decided by the primary target alone
switchOutcomePrimaryOnly(primaryApp, targets, failedWrites) ==
    [kind |-> IF Primary(primaryApp) \in failedWrites THEN "Failure" ELSE "Success",
     targets |-> targets,
     succeeded |-> targets \ failedWrites,
     failed |-> failedWrites \cap {Primary(primaryApp)},
     applied |-> targets \ failedWrites]

\* The result of applying a switch whose write failed for `failedWrites`.
switchOutcome(primaryApp, targets, failedWrites) ==
    [kind |-> IF failedWrites = {} THEN "Success"
              ELSE IF failedWrites = targets THEN "Failure"
              ELSE "SyncPartialFailure",
     targets |-> targets,
     succeeded |-> targets \ failedWrites,
     failed |-> failedWrites,
     applied |-> targets \ failedWrites]

ProviderSwitch(app) ==
    /\ \E failedWrites \in SUBSET targetsFor(syncProviderSwitchToBothConfigDirs, app) :
        lastEvent' =
            [kind |-> "providerSwitch", control |-> app, value |-> undefined,
             failedWrites |-> failedWrites,
             result |-> switchOutcome(app,
                            targetsFor(syncProviderSwitchToBothConfigDirs, app),
                            failedWrites)]
    /\ UNCHANGED <<settings, resolvedDirs, pendingBrowse>>

-----------------------------------------------------------------------------

Init ==
    /\ appConfigDir = undefined
    /\ claudeDir = undefined
    /\ codexDir = undefined
    /\ geminiDir = undefined
    /\ enableConfigDirOverrides = FALSE
    /\ syncProviderSwitchToBothConfigDirs = FALSE
    /\ resolvedDirs \in ResolvedChoices
    /\ pendingBrowse = {}
    /\ lastEvent = Event("init", "none", undefined)

Next ==
    \/ AppConfigInputChange
    \/ AppConfigBrowseClick
    \/ AppConfigResetClick
    \/ \E app \in AppId : DirectoryInputChange(app)
    \/ \E app \in AppId : DirectoryBrowseClick(app)
    \/ \E app \in AppId : DirectoryResetClick(app)
    \/ EnableOverridesSwitchClick
    \/ SyncSwitchClick
    \/ \E key \in DirectoryKeys : BrowseSelected(key)
    \/ \E key \in DirectoryKeys : BrowseCancelled(key)
    \/ \E key \in DirectoryKeys : BrowseError(key)
    \/ \E app \in AppId : ProviderSwitch(app)

Spec == Init /\ [][Next]_vars

-----------------------------------------------------------------------------
(* Properties *)

PerApp == <<claudeDir, codexDir, geminiDir>>

\* The precedence rule: the override when present, else the resolved default.
effectivePath(override, resolvedDefault) ==
    IF override # undefined THEN override ELSE Str(resolvedDefault)

\* C1: for the host app-config directory and for each of claude, codex and
\* gemini, the displayed path is the stored override whenever one is present
\* (the empty string included) and the resolved default only when it is absent.
C1_DisplayIsEffectivePath ==
    \A key \in DirectoryKeys :
        Display(key) = effectivePath(StoredOverride(key), resolvedDirs[key])

C1_Witness ==
    /\ claudeDir = Str("")
    /\ DirectoryInputDisplay("claude") = Str("")
    /\ codexDir = undefined
    /\ DirectoryInputDisplay("codex") = Str(resolvedDirs.codex)
    /\ appConfigDir = Str(CustomPath(1))
    /\ AppConfigInputDisplay = Str(CustomPath(1))
    /\ resolvedDirs.appConfig # CustomPath(1)

\* C2: whenever overridesEnabled is false, each per-app input displays that
\* app's resolved default, even when an override is stored for the app.
C2_GateOffDisplaysDefault ==
    ~enableConfigDirOverrides =>
        \A app \in AppId : DirectoryInputDisplay(app) = ResolvedValue(app)

\* C3: a click on the overrides switch flips overridesEnabled and changes
\* nothing else (no override, not the sync flag), so that once the gate is on
\* each app displays the override that was stored before the click.
C3_GateSwitchChangesOnlyGate ==
    [][lastEvent'.kind = "enableSwitch" =>
          /\ enableConfigDirOverrides' = ~enableConfigDirOverrides
          /\ UNCHANGED <<appConfigDir, claudeDir, codexDir, geminiDir,
                         syncProviderSwitchToBothConfigDirs>>
          /\ enableConfigDirOverrides' =>
                \A app \in AppId :
                    DirectoryInputDisplay(app)' =
                        effectivePath(DirValue(app), resolvedDirs[app])]_vars

C3_Witness ==
    /\ lastEvent.kind = "enableSwitch"
    /\ enableConfigDirOverrides
    /\ claudeDir = Str(CustomPath(1))
    /\ codexDir = Str("")
    /\ DirectoryInputDisplay("claude") = Str(CustomPath(1))
    /\ resolvedDirs.claude # CustomPath(1)

\* C4: right after a reset of a directory its stored override is absent and
\* its displayed path is its resolved default, whatever was stored before.
C4_ResetYieldsDefault ==
    [][\A key \in DirectoryKeys :
          (lastEvent'.kind = "reset" /\ lastEvent'.control = key) =>
              /\ StoredOverride(key)' = undefined
              /\ Display(key)' = Str(resolvedDirs[key])]_vars

C4_Witness ==
    /\ lastEvent.kind = "reset"
    /\ lastEvent.control = "codex"
    /\ codexDir = undefined
    /\ claudeDir # undefined
    /\ DirectoryInputDisplay("codex") = Str(resolvedDirs.codex)

\* C5: neither opening a directory dialog nor its completion by cancellation
\* or by an error changes the settings state; a completion with a path sets
\* exactly the override of the browsed directory to that path.
C5_BrowseOutcome ==
    [][/\ lastEvent'.kind \in {"browse", "browseCancelled", "browseError"} =>
            UNCHANGED settings
       /\ lastEvent'.kind = "browseSelected" =>
            /\ lastEvent'.value \in {Str(p) : p \in DialogPaths}
            /\ \A key \in DirectoryKeys :
                    StoredOverride(key)' =
                        IF key = lastEvent'.control
                        THEN lastEvent'.value ELSE StoredOverride(key)
            /\ UNCHANGED <<enableConfigDirOverrides,
                           syncProviderSwitchToBothConfigDirs>>]_vars

C5_Witness ==
    /\ lastEvent.kind = "browseCancelled"
    /\ lastEvent.control = "gemini"
    /\ geminiDir = Str(CustomPath(1))
    /\ pendingBrowse = {}

\* C6: a provider switch for a primary app targets exactly the primary app
\* when the sync flag is off and exactly the primary app and its companion
\* when it is on, whatever the gate and the stored overrides are.
C6_TargetsFollowSyncFlag ==
    lastEvent.kind = "providerSwitch" =>
        lastEvent.result.targets =
            IF syncProviderSwitchToBothConfigDirs
            THEN {Primary(lastEvent.control), Companion(lastEvent.control)}
            ELSE {Primary(lastEvent.control)}

C6_Witness ==
    /\ lastEvent.kind = "providerSwitch"
    /\ lastEvent.control = "codex"
    /\ syncProviderSwitchToBothConfigDirs
    /\ ~enableConfigDirOverrides
    /\ codexDir # undefined
    /\ lastEvent.result.targets = {Primary("codex"), Companion("codex")}

\* C7: when a synced provider switch fails for some but not all of its
\* targets the outcome is SyncPartialFailure, it names exactly the failed
\* targets, reports exactly the others as succeeded, and their writes stay
\* applied.
C7_PartialFailureReported ==
    ( /\ lastEvent.kind = "providerSwitch"
      /\ syncProviderSwitchToBothConfigDirs
      /\ lastEvent.failedWrites # {}
      /\ lastEvent.failedWrites # lastEvent.result.targets ) =>
        /\ lastEvent.result.kind = "SyncPartialFailure"
        /\ lastEvent.result.failed = lastEvent.failedWrites
        /\ lastEvent.result.succeeded =
                lastEvent.result.targets \ lastEvent.failedWrites
        /\ lastEvent.result.applied = lastEvent.result.succeeded

C7_Witness ==
    /\ lastEvent.kind = "providerSwitch"
    /\ lastEvent.control = "claude"
    /\ syncProviderSwitchToBothConfigDirs
    /\ lastEvent.failedWrites = {Companion("claude")}
    /\ lastEvent.result.kind = "SyncPartialFailure"
    /\ lastEvent.result.succeeded = {Primary("claude")}

\* While a dialog is open the app-config input and reset and both switches
\* are enabled, and so are the per-app inputs and resets when the gate is on.
ControlsUsableWhileBrowsing ==
    pendingBrowse # {} =>
        /\ ENABLED AppConfigInputChange
        /\ ENABLED AppConfigResetClick
        /\ ENABLED EnableOverridesSwitchClick
        /\ ENABLED SyncSwitchClick
        /\ enableConfigDirOverrides =>
                \A app \in AppId :
                    /\ ENABLED DirectoryInputChange(app)
                    /\ ENABLED DirectoryResetClick(app)

\* C8: opening a directory dialog changes no setting, and while a dialog is
\* open every other control works as it does without one: the app-config
\* input and reset and both switches are enabled, the per-app inputs and
\* resets are enabled whenever the gate is on, and an edit, reset or toggle
\* made meanwhile takes effect.  When the dialog completes with a path, only
\* the override of the browsed directory changes.
C8_BrowseDoesNotBlock ==
    /\ []ControlsUsableWhileBrowsing
    /\ [][/\ lastEvent'.kind = "browse" => UNCHANGED settings
          /\ pendingBrowse # {} =>
               /\ \A key \in DirectoryKeys :
                    /\ (lastEvent'.kind = "change" /\ lastEvent'.control = key) =>
                            StoredOverride(key)' = lastEvent'.value
                    /\ (lastEvent'.kind = "reset" /\ lastEvent'.control = key) =>
                            StoredOverride(key)' = undefined
                    /\ (lastEvent'.kind = "browseSelected"
                            /\ lastEvent'.control # key) =>
                            StoredOverride(key)' = StoredOverride(key)
               /\ lastEvent'.kind = "enableSwitch" =>
                    enableConfigDirOverrides' = ~enableConfigDirOverrides
               /\ lastEvent'.kind = "syncSwitch" =>
                    syncProviderSwitchToBothConfigDirs' =
                        ~syncProviderSwitchToBothConfigDirs
               /\ lastEvent'.kind = "browseSelected" =>
                    UNCHANGED <<enableConfigDirOverrides,
                                syncProviderSwitchToBothConfigDirs>>]_vars

C8_Witness ==
    /\ pendingBrowse = {"gemini"}
    /\ lastEvent.kind = "change"
    /\ lastEvent.control = "claude"
    /\ claudeDir = Str(CustomPath(1))
    /\ resolvedDirs.claude # CustomPath(1)

PerAppEventKinds == {"change", "browse", "reset"}

\* The app-config input and reset and both switches are enabled.
UngatedControlsEnabled ==
    /\ ENABLED AppConfigInputChange
    /\ ENABLED AppConfigResetClick
    /\ ENABLED EnableOverridesSwitchClick
    /\ ENABLED SyncSwitchClick
    /\ (pendingBrowse = {}) => ENABLED AppConfigBrowseClick

\* While the gate is off the input, browse button and reset button of every
\* app are disabled.
PerAppControlsGated ==
    ~enableConfigDirOverrides =>
        \A app \in AppId :
            /\ Disabled(app)
            /\ ~ENABLED DirectoryInputChange(app)
            /\ ~ENABLED DirectoryBrowseClick(app)
            /\ ~ENABLED DirectoryResetClick(app)

\* C9 as stated: while the gate is off the per-app controls are disabled, no
\* per-app edit, browse or reset event occurs and no per-app override
\* changes; the app-config controls and both switches stay enabled.
C9_GateOffFreezesPerApp ==
    /\ [](PerAppControlsGated /\ UngatedControlsEnabled)
    /\ [][~enableConfigDirOverrides =>
            /\ lastEvent'.kind \in PerAppEventKinds =>
                    lastEvent'.control = "appConfig"
            /\ UNCHANGED PerApp]_vars

\* C9 amended: while the gate is off the per-app controls are disabled and
\* no per-app edit, browse click or reset event occurs; a per-app override
\* then changes only when a dialog that is still open completes with a path,
\* which sets the override of the browsed app.  The app-config controls and
\* both switches stay enabled.
C9_GateDisablesPerAppControls ==
    /\ [](PerAppControlsGated /\ UngatedControlsEnabled)
    /\ [][~enableConfigDirOverrides =>
            /\ lastEvent'.kind \in PerAppEventKinds =>
                    lastEvent'.control = "appConfig"
            /\ \A app \in AppId :
                    DirValue(app)' # DirValue(app) =>
                        /\ lastEvent'.kind = "browseSelected"
                        /\ lastEvent'.control = app
                        /\ app \in pendingBrowse
                        /\ DirValue(app)' = lastEvent'.value]_vars

C9_Witness ==
    /\ ~enableConfigDirOverrides
    /\ lastEvent.kind = "reset"
    /\ lastEvent.control = "appConfig"
    /\ claudeDir = Str(CustomPath(1))
    /\ codexDir = Str("")

\* C10: a text edit stores the typed string as a present override, never
\* absent; after clearing the field the stored override and the displayed
\* path are the empty string; a present override becomes absent only by a
\* reset of that directory.
C10_EditStoresTypedString ==
    [][\A key \in DirectoryKeys :
          /\ (lastEvent'.kind = "change" /\ lastEvent'.control = key) =>
                /\ lastEvent'.value \in {Str(s) : s \in TypedStrings}
                /\ StoredOverride(key)' = lastEvent'.value
                /\ Display(key)' = lastEvent'.value
          /\ (StoredOverride(key) # undefined /\ StoredOverride(key)' = undefined) =>
                (lastEvent'.kind = "reset" /\ lastEvent'.control = key)]_vars

C10_Witness ==
    /\ lastEvent.kind = "change"
    /\ lastEvent.control = "claude"
    /\ lastEvent.value = Str("")
    /\ claudeDir = Str("")
    /\ DirectoryInputDisplay("claude") = Str("")
    /\ DirectoryInputDisplay("claude") # ResolvedValue("claude")

====
